---- MODULE Spec2Model ----
(***************************************************************************)
(* Model of the AIInterview LimeSurvey plugin.                             *)
(*                                                                         *)
(*   Spec        the client widget (assets/ai-interview.js, initWidget):   *)
(*               one action per DOM event handler and per XHR completion.  *)
(*   ProxySpec   the chat proxy (AIInterview.php, handleChatRequest): one  *)
(*               action handling one request from validation to response.  *)
(*   RoundTripSpec  updateAnswerField followed by restoreFromTranscript,   *)
(*               applied to bounded message lists.                         *)
(*   DirectSpec  newDirectRequest (AIInterview.php): one request to one of *)
(*               the functions chat, reinstall, debug and testchat, or one *)
(*               render event of a question.                               *)
(*                                                                         *)
(* Text is modelled as a sequence of tokens.  A token stands for a fixed   *)
(* piece of text: "a", "b", "p", "r" are ordinary characters, "SP" is a    *)
(* space, "NL" is a line feed, "I:" is the text 'Interviewer:', "U:" is    *)
(* 'User:', "MARK" is '--- Interview concluded ---', "PH" is               *)
(* '[AI Interview in progress]' and "SKIP" is the skip sentinel.           *)
(***************************************************************************)
EXTENDS Integers, Sequences, FiniteSets, TLC

VARIABLES
    \* ---- client widget (closure variables and DOM state of initWidget)
    cfg,                  \* data attributes of the widget element
    restored,             \* initWidget returned from the restore branch
    conversationHistory,  \* messages sent to the proxy
    transcriptLines,      \* plain-text transcript lines
    tokensUsed,           \* running token count
    finished,             \* the interview has been finished
    answerField,          \* value of the hidden answer textarea
    bubbles,              \* message bubbles appended to messagesEl
    inputValue,           \* value of the input textarea
    sendDisabled,         \* sendBtn.disabled
    inputDisabled,        \* inputEl.disabled
    typingShown,          \* typing indicator displayed
    errorShown,           \* error banner displayed
    finishBtnShown,       \* finish button displayed
    inputAreaShown,       \* input area displayed
    tokenWarnShown,       \* token warning displayed
    inflight,             \* XHRs sent and not yet completed (their callbacks)
    callsMade,            \* number of callAI invocations so far
    finishedBy,           \* history: what first set finished
    lastEvent,            \* history: the handler that ran last, and for a
                          \* submit event whether it was blocked
    \* ---- chat proxy (one request of handleChatRequest)
    req,                  \* the request and its environment
    resp,                 \* the response sent by sendJsonResponse
    upstream,             \* message lists passed to callOpenAI
    \* ---- round trip
    rtSession,            \* widget state of the session that writes the answer
    rtPhase,              \* "session", then "back" after back-navigation
    rtRestored,           \* widget state initWidget builds from that answer
    \* ---- auxiliary endpoints and the question-theme registration
    auxReq,               \* a reinstall, debug or testchat request
    auxResp,              \* the response sent by sendJsonResponse
    themes,               \* rows of the question-theme table, in id order
    themeFiles,           \* paths that exist below the theme directories
    lifecycle,            \* history: the last lifecycle operation that ran
    \* ---- question rendering
    question,             \* the question being rendered and its environment
    page                  \* the widget markup sent to the browser

widgetVars == <<cfg, restored, conversationHistory, transcriptLines, tokensUsed,
                finished, answerField, bubbles, inputValue, sendDisabled,
                inputDisabled, typingShown, errorShown, finishBtnShown,
                inputAreaShown, tokenWarnShown, inflight, callsMade,
                finishedBy, lastEvent>>
proxyVars == <<req, resp, upstream>>
rtVars == <<rtSession, rtPhase, rtRestored>>
auxVars == <<auxReq, auxResp, themes, themeFiles, lifecycle, question, page>>
vars == <<widgetVars, proxyVars, rtVars, auxVars>>

(***************************************************************************)
(* Text helpers                                                            *)
(***************************************************************************)

IsSpace(t) == t \in {"SP", "NL"}

RECURSIVE TrimLeft(_)
TrimLeft(s) ==
    IF s = <<>> THEN <<>>
    ELSE IF IsSpace(Head(s)) THEN TrimLeft(Tail(s)) ELSE s

RECURSIVE TrimRight(_)
TrimRight(s) ==
    IF s = <<>> THEN <<>>
    ELSE IF IsSpace(s[Len(s)]) THEN TrimRight(SubSeq(s, 1, Len(s) - 1)) ELSE s

\* String.prototype.trim
Trim(s) == TrimRight(TrimLeft(s))

\* String.prototype.startsWith
StartsWith(s, p) == Len(s) >= Len(p) /\ SubSeq(s, 1, Len(p)) = p

RECURSIVE Join(_)
\* Array.prototype.join('\n')
Join(lines) ==
    IF lines = <<>> THEN <<>>
    ELSE IF Len(lines) = 1 THEN lines[1]
    ELSE lines[1] \o <<"NL">> \o Join(Tail(lines))

RECURSIVE SplitFrom(_, _)
SplitFrom(s, cur) ==
    IF s = <<>> THEN <<cur>>
    ELSE IF Head(s) = "NL" THEN <<cur>> \o SplitFrom(Tail(s), <<>>)
    ELSE SplitFrom(Tail(s), Append(cur, Head(s)))

\* String.prototype.split('\n')
Split(s) == SplitFrom(s, <<>>)

RECURSIVE ReplaceFirst(_, _)
\* String.prototype.replace(p, ''): removes the first occurrence of p
ReplaceFirst(s, p) ==
    IF StartsWith(s, p) THEN SubSeq(s, Len(p) + 1, Len(s))
    ELSE IF s = <<>> THEN <<>>
    ELSE <<Head(s)>> \o ReplaceFirst(Tail(s), p)

InterviewerPrefix == <<"I:", "SP">>
UserPrefix == <<"U:", "SP">>
Placeholder == <<"PH">>
SkipSentinel == <<"SKIP">>
ConcludedMarker == <<"MARK">>

(***************************************************************************)
(* Bounds and input sets of the widget model                               *)
(***************************************************************************)

\* cap on the number of callAI invocations in one page session
MaxCalls == 3

\* program constant: default token budget (parseInt(...) || 6000)
DefaultMaxTokens == 6000

\* values of the data-max-tokens attribute (PHP emits an int)
MaxTokensAttrs == {-1, 0, 3}
\* values of data.tokensUsed in a 200 response (a token count)
TokenCounts == {0, 2, 6000}
\* values of the data-prompt attribute
Prompts == {<<>>, <<"p">>}
\* texts the respondent can type into the input box
InputTexts == {<<"SP">>, <<"SP", "a">>}
\* reply texts of the model
ReplyTexts == {<<"r">>, <<"r", "NL", "b">>}
\* values of the answer textarea rendered by the server (dispVal)
InitialAnswers ==
    { <<>>, <<"SP">>, Placeholder, SkipSentinel,
      <<"I:", "SP", "r", "NL", "U:", "SP", "a", "NL", "NL", "MARK">> }

Configs ==
    [prompt : Prompts, maxTokensAttr : MaxTokensAttrs,
     mandatory : BOOLEAN, hasRetry : BOOLEAN]

\* parseInt(widget.dataset.maxTokens, 10) || 6000
maxTokens == IF cfg.maxTokensAttr = 0 THEN DefaultMaxTokens ELSE cfg.maxTokensAttr

(***************************************************************************)
(* The widget state as a record, and the functions of initWidget on it     *)
(***************************************************************************)

Cur ==
    [conversationHistory |-> conversationHistory,
     transcriptLines |-> transcriptLines,
     tokensUsed |-> tokensUsed,
     finished |-> finished,
     answerField |-> answerField,
     bubbles |-> bubbles,
     inputValue |-> inputValue,
     sendDisabled |-> sendDisabled,
     inputDisabled |-> inputDisabled,
     typingShown |-> typingShown,
     errorShown |-> errorShown,
     finishBtnShown |-> finishBtnShown,
     inputAreaShown |-> inputAreaShown,
     tokenWarnShown |-> tokenWarnShown,
     inflight |-> inflight,
     callsMade |-> callsMade,
     finishedBy |-> finishedBy]

Commit(s) ==
    /\ conversationHistory' = s.conversationHistory
    /\ transcriptLines' = s.transcriptLines
    /\ tokensUsed' = s.tokensUsed
    /\ finished' = s.finished
    /\ answerField' = s.answerField
    /\ bubbles' = s.bubbles
    /\ inputValue' = s.inputValue
    /\ sendDisabled' = s.sendDisabled
    /\ inputDisabled' = s.inputDisabled
    /\ typingShown' = s.typingShown
    /\ errorShown' = s.errorShown
    /\ finishBtnShown' = s.finishBtnShown
    /\ inputAreaShown' = s.inputAreaShown
    /\ tokenWarnShown' = s.tokenWarnShown
    /\ inflight' = s.inflight
    /\ callsMade' = s.callsMade
    /\ finishedBy' = s.finishedBy

appendMessage(s, role, text) ==
    [s EXCEPT !.bubbles = Append(@, [role |-> role, text |-> text])]

setLoading(s, isLoading) ==
    [s EXCEPT !.typingShown = isLoading,
              !.sendDisabled = isLoading,
              !.inputDisabled = isLoading]

showError(s) == [s EXCEPT !.errorShown = TRUE]

updateAnswerField(s) == [s EXCEPT !.answerField = Join(s.transcriptLines)]

\* callAI: the payload is built from conversationHistory when the call is made
callAI(s, kind) ==
    [s EXCEPT !.inflight = Append(@, [kind |-> kind,
                                      messages |-> s.conversationHistory]),
              !.callsMade = @ + 1]

\* variant: finishInterview without the test of the finished flag
finishInterview_noGuard(s, auto) ==
    updateAnswerField(
      [s EXCEPT !.finished = TRUE,
                !.finishedBy = IF s.finished THEN @
                               ELSE IF auto THEN "budget" ELSE "finish",
                !.inputDisabled = TRUE,
                !.sendDisabled = TRUE,
                !.finishBtnShown = FALSE,
                !.inputAreaShown = FALSE,
                !.transcriptLines = @ \o <<<<>>, ConcludedMarker>>])

finishInterview(s, auto) ==
    IF s.finished THEN s
    ELSE updateAnswerField(
           [s EXCEPT !.finished = TRUE,
                     !.finishedBy = IF auto THEN "budget" ELSE "finish",
                     !.inputDisabled = TRUE,
                     !.sendDisabled = TRUE,
                     !.finishBtnShown = FALSE,
                     !.inputAreaShown = FALSE,
                     !.transcriptLines = @ \o <<<<>>, ConcludedMarker>>])

\* variant: the budget must be exceeded
checkTokenBudget_strict(s) ==
    IF s.tokensUsed > maxTokens
    THEN finishInterview([s EXCEPT !.tokenWarnShown = TRUE], TRUE)
    ELSE s

checkTokenBudget(s) ==
    IF s.tokensUsed >= maxTokens
    THEN finishInterview([s EXCEPT !.tokenWarnShown = TRUE], TRUE)
    ELSE s

\* variant: skipInterview does not set the finished flag
skipInterview_notFinished(s) ==
    [s EXCEPT !.answerField = SkipSentinel,
              !.inputDisabled = TRUE,
              !.sendDisabled = TRUE,
              !.finishBtnShown = FALSE,
              !.errorShown = FALSE,
              !.inputAreaShown = FALSE]

skipInterview(s) ==
    [s EXCEPT !.finished = TRUE,
              !.finishedBy = IF s.finished THEN @ ELSE "skip",
              !.answerField = SkipSentinel,
              !.inputDisabled = TRUE,
              !.sendDisabled = TRUE,
              !.finishBtnShown = FALSE,
              !.errorShown = FALSE,
              !.inputAreaShown = FALSE]

RECURSIVE restoreLines(_, _)
\* the forEach over the lines of restoreFromTranscript
restoreLines(s, lines) ==
    IF lines = <<>> THEN s
    ELSE LET line == Head(lines)
             s1 == IF StartsWith(line, InterviewerPrefix)
                   THEN appendMessage(s, "assistant",
                                      ReplaceFirst(line, InterviewerPrefix))
                   ELSE IF StartsWith(line, UserPrefix)
                   THEN appendMessage(s, "user", ReplaceFirst(line, UserPrefix))
                   ELSE s
         IN restoreLines(s1, Tail(lines))

restoreFromTranscript(s, transcript) ==
    LET s1 == restoreLines([s EXCEPT !.finished = TRUE,
                                     !.finishedBy = "restore"],
                           Split(transcript))
    IN [s1 EXCEPT !.inputDisabled = TRUE,
                  !.sendDisabled = TRUE,
                  !.finishBtnShown = FALSE,
                  !.inputAreaShown = FALSE]

\* variant: the budget is not checked after the opening reply
onOpeningSuccess_nocheck(s, reply, newTokens) ==
    LET s1 == setLoading(s, FALSE)
        s2 == [s1 EXCEPT !.tokensUsed = @ + newTokens]
        s3 == appendMessage(s2, "assistant", reply)
        s4 == [s3 EXCEPT !.conversationHistory =
                             Append(@, [role |-> "assistant", content |-> reply]),
                         !.transcriptLines = Append(@, InterviewerPrefix \o reply)]
        s5 == updateAnswerField(s4)
    IN [s5 EXCEPT !.finishBtnShown = TRUE]

\* the success callback of the opening call and of the retry call
onOpeningSuccess(s, reply, newTokens) ==
    LET s1 == setLoading(s, FALSE)
        s2 == [s1 EXCEPT !.tokensUsed = @ + newTokens]
        s3 == appendMessage(s2, "assistant", reply)
        s4 == [s3 EXCEPT !.conversationHistory =
                             Append(@, [role |-> "assistant", content |-> reply]),
                         !.transcriptLines = Append(@, InterviewerPrefix \o reply)]
        s5 == updateAnswerField(s4)
        s6 == [s5 EXCEPT !.finishBtnShown = TRUE]
    IN checkTokenBudget(s6)

\* variant: the counter is overwritten with the tokens of the last reply
onSendSuccess_assign(s, reply, newTokens) ==
    LET s1 == setLoading(s, FALSE)
        s2 == [s1 EXCEPT !.tokensUsed = newTokens]
        s3 == appendMessage(s2, "assistant", reply)
        s4 == [s3 EXCEPT !.conversationHistory =
                             Append(@, [role |-> "assistant", content |-> reply]),
                         !.transcriptLines = Append(@, InterviewerPrefix \o reply)]
        s5 == updateAnswerField(s4)
    IN checkTokenBudget(s5)

\* the success callback of sendUserMessage
onSendSuccess(s, reply, newTokens) ==
    LET s1 == setLoading(s, FALSE)
        s2 == [s1 EXCEPT !.tokensUsed = @ + newTokens]
        s3 == appendMessage(s2, "assistant", reply)
        s4 == [s3 EXCEPT !.conversationHistory =
                             Append(@, [role |-> "assistant", content |-> reply]),
                         !.transcriptLines = Append(@, InterviewerPrefix \o reply)]
        s5 == updateAnswerField(s4)
    IN checkTokenBudget(s5)

\* the error callback of every call
\* variant: the error callback issues the call again
onCallError_retry(s) == callAI(showError(setLoading(s, FALSE)), "retry")

onCallError(s) == showError(setLoading(s, FALSE))

\* variant: sendUserMessage that does not record the user message in the
\* conversation history
sendUserMessage_noHistory(s) ==
    IF s.finished THEN s
    ELSE LET text == Trim(s.inputValue) IN
         IF text = <<>> THEN s
         ELSE LET s1 == appendMessage(s, "user", text)
                  s2 == [s1 EXCEPT !.transcriptLines = Append(@, UserPrefix \o text)]
                  s3 == updateAnswerField(s2)
                  s4 == [s3 EXCEPT !.inputValue = <<>>]
              IN callAI(setLoading(s4, TRUE), "send")

sendUserMessage(s) ==
    IF s.finished THEN s
    ELSE LET text == Trim(s.inputValue) IN
         IF text = <<>> THEN s
         ELSE LET s1 == appendMessage(s, "user", text)
                  s2 == [s1 EXCEPT !.conversationHistory =
                                       Append(@, [role |-> "user", content |-> text]),
                                   !.transcriptLines = Append(@, UserPrefix \o text)]
                  s3 == updateAnswerField(s2)
                  s4 == [s3 EXCEPT !.inputValue = <<>>]
              IN callAI(setLoading(s4, TRUE), "send")

\* variant: one transcript line is enough to submit
submitBlocked_oneLine(s, mandatory) ==
    mandatory /\ ~s.finished /\ Len(s.transcriptLines) < 1

\* the submit listener registered when data-mandatory is '1'
submitBlocked(s, mandatory) ==
    mandatory /\ ~s.finished /\ Len(s.transcriptLines) < 2

(***************************************************************************)
(* initWidget: the state when initWidget returns                           *)
(***************************************************************************)

InitFrom(s) ==
    /\ conversationHistory = s.conversationHistory
    /\ transcriptLines = s.transcriptLines
    /\ tokensUsed = s.tokensUsed
    /\ finished = s.finished
    /\ answerField = s.answerField
    /\ bubbles = s.bubbles
    /\ inputValue = s.inputValue
    /\ sendDisabled = s.sendDisabled
    /\ inputDisabled = s.inputDisabled
    /\ typingShown = s.typingShown
    /\ errorShown = s.errorShown
    /\ finishBtnShown = s.finishBtnShown
    /\ inputAreaShown = s.inputAreaShown
    /\ tokenWarnShown = s.tokenWarnShown
    /\ inflight = s.inflight
    /\ callsMade = s.callsMade
    /\ finishedBy = s.finishedBy

\* the closure variables and the DOM as rendered by buildWidgetHtml
Fresh(c, dispVal) ==
    [conversationHistory |->
         IF c.prompt # <<>>
         THEN <<[role |-> "system", content |-> c.prompt]>> ELSE <<>>,
     transcriptLines |-> <<>>,
     tokensUsed |-> 0,
     finished |-> FALSE,
     answerField |-> IF Trim(dispVal) = <<>> THEN Placeholder ELSE dispVal,
     bubbles |-> <<>>,
     inputValue |-> <<>>,
     sendDisabled |-> FALSE,
     inputDisabled |-> FALSE,
     typingShown |-> FALSE,
     errorShown |-> FALSE,
     finishBtnShown |-> FALSE,
     inputAreaShown |-> TRUE,
     tokenWarnShown |-> FALSE,
     inflight |-> <<>>,
     callsMade |-> 0,
     finishedBy |-> "none"]

\* initWidget takes the restore branch
IsPriorAnswer(v) == Trim(v) # <<>> /\ Trim(v) # Placeholder

\* initWidget without the return that ends the restore branch
initWidget_noReturn(c, dispVal) ==
    LET s0 == Fresh(c, dispVal)
        s1 == IF IsPriorAnswer(s0.answerField)
              THEN restoreFromTranscript(s0, Trim(s0.answerField))
              ELSE s0
    IN  IF c.prompt # <<>>
        THEN callAI(setLoading(s1, TRUE), "opening")
        ELSE showError(s1)

initWidget(c, dispVal) ==
    LET s0 == Fresh(c, dispVal) IN
    IF IsPriorAnswer(s0.answerField)
    THEN restoreFromTranscript(s0, Trim(s0.answerField))
    ELSE IF c.prompt # <<>>
    THEN callAI(setLoading(s0, TRUE), "opening")
    ELSE showError(s0)

WidgetInit ==
    \E c \in Configs, dispVal \in InitialAnswers :
        /\ cfg = c
        /\ restored = IsPriorAnswer(Fresh(c, dispVal).answerField)
        /\ lastEvent = "init"
        /\ InitFrom(initWidget(c, dispVal))

\* the widget of a page that is not under study
WidgetAbsent ==
    /\ cfg = [prompt |-> <<>>, maxTokensAttr |-> 0,
              mandatory |-> FALSE, hasRetry |-> FALSE]
    /\ restored = FALSE
    /\ lastEvent = "none"
    /\ InitFrom(Fresh(cfg, <<>>))

(***************************************************************************)
(* Widget actions: DOM events and XHR completions                          *)
(***************************************************************************)

\* the listeners are registered only when initWidget did not return early
Listening == ~restored

\* the respondent edits the input box (Shift+Enter inserts a line feed)
TypeText ==
    /\ ~inputDisabled /\ inputAreaShown
    /\ \E t \in InputTexts :
          /\ t # inputValue
          /\ Commit([Cur EXCEPT !.inputValue = t])
    /\ lastEvent' = "type"
    /\ UNCHANGED <<cfg, restored, proxyVars, rtVars, auxVars>>

\* sendUserMessage issues a call unless it returns early
Sends(s) == ~s.finished /\ Trim(s.inputValue) # <<>>

SendClick ==
    /\ Listening
    /\ ~sendDisabled /\ inputAreaShown
    /\ Sends(Cur) => callsMade < MaxCalls
    /\ Commit(sendUserMessage(Cur))
    /\ lastEvent' = "send"
    /\ UNCHANGED <<cfg, restored, proxyVars, rtVars, auxVars>>

EnterKey ==
    /\ Listening
    /\ ~inputDisabled /\ inputAreaShown
    /\ Sends(Cur) => callsMade < MaxCalls
    /\ Commit(sendUserMessage(Cur))
    /\ lastEvent' = "enter"
    /\ UNCHANGED <<cfg, restored, proxyVars, rtVars, auxVars>>

FinishClick ==
    /\ Listening
    /\ finishBtnShown /\ inputAreaShown
    /\ Commit(finishInterview(Cur, FALSE))
    /\ lastEvent' = "finish"
    /\ UNCHANGED <<cfg, restored, proxyVars, rtVars, auxVars>>

\* variant: the retry handler starts the interview over
RetryClick_restart ==
    /\ Listening
    /\ cfg.hasRetry /\ errorShown
    /\ callsMade < MaxCalls
    /\ Commit(callAI(setLoading([Cur EXCEPT !.errorShown = FALSE,
                                            !.finished = FALSE], TRUE),
                     "retry"))
    /\ lastEvent' = "retry"
    /\ UNCHANGED <<cfg, restored, proxyVars, rtVars, auxVars>>

\* the retry button sits inside the error banner
RetryClick ==
    /\ Listening
    /\ cfg.hasRetry /\ errorShown
    /\ callsMade < MaxCalls
    /\ Commit(callAI(setLoading([Cur EXCEPT !.errorShown = FALSE], TRUE), "retry"))
    /\ lastEvent' = "retry"
    /\ UNCHANGED <<cfg, restored, proxyVars, rtVars, auxVars>>

\* the skip button sits inside the error banner
SkipClick ==
    /\ Listening
    /\ errorShown
    /\ Commit(skipInterview(Cur))
    /\ lastEvent' = "skip"
    /\ UNCHANGED <<cfg, restored, proxyVars, rtVars, auxVars>>

\* a submit event of the host form
SubmitForm ==
    /\ lastEvent' = IF Listening /\ submitBlocked(Cur, cfg.mandatory)
                    THEN "submit_blocked" ELSE "submit_passed"
    /\ Commit(Cur)
    /\ UNCHANGED <<cfg, restored, proxyVars, rtVars, auxVars>>

RemoveAt(q, i) == SubSeq(q, 1, i - 1) \o SubSeq(q, i + 1, Len(q))

\* xhr.onload with status 200 and a body without an error field
ReplyArrives ==
    \E i \in DOMAIN inflight, reply \in ReplyTexts, newTokens \in TokenCounts :
        LET s == [Cur EXCEPT !.inflight = RemoveAt(@, i)] IN
        /\ Commit(IF inflight[i].kind = "send"
                  THEN onSendSuccess(s, reply, newTokens)
                  ELSE onOpeningSuccess(s, reply, newTokens))
        /\ lastEvent' = "reply"
        /\ UNCHANGED <<cfg, restored, proxyVars, rtVars, auxVars>>

\* xhr.onload with an error, xhr.onerror, xhr.ontimeout
CallFails ==
    \E i \in DOMAIN inflight :
        /\ Commit(onCallError([Cur EXCEPT !.inflight = RemoveAt(@, i)]))
        /\ lastEvent' = "error"
        /\ UNCHANGED <<cfg, restored, proxyVars, rtVars, auxVars>>

(***************************************************************************)
(* Chat proxy: handleChatRequest                                           *)
(*                                                                         *)
(* A content is a record [text, len, instr]: text names the trimmed text,  *)
(* len is its length in characters and instr is the sequence of language   *)
(* codes whose instruction has been prepended to it.  A raw content also   *)
(* has pad, the number of surrounding white space characters counted in    *)
(* len.  json_encode and curl_init are taken to succeed: the contents come *)
(* from a body json_decode accepted and the URL is a constant.             *)
(***************************************************************************)

\* bound on the length of the messages list of a request
MaxMessages == 2

\* program constants
MaxContentLen == 8000
InstructionLen == 179
DefaultProxyMaxTokens == 6000
MinCompletionTokens == 256

\* variant: the role list also admits tool messages
AllowedRoles_withTool == {"system", "user", "assistant", "tool"}

AllowedRoles == {"system", "user", "assistant"}

\* entries of the messages list: not an array, a key missing, or role/content
RawMessages ==
    { [shape |-> "notArray"], [shape |-> "noContent", role |-> "user"] }
    \cup { [shape |-> "ok", role |-> "tool", content |-> c] :
             c \in {[text |-> "c1", len |-> 5, pad |-> 0]} }
    \cup { [shape |-> "ok", role |-> "system", content |-> c] :
             c \in {[text |-> "c2", len |-> 5, pad |-> 0],
                    [text |-> "c3", len |-> 8003, pad |-> 2]} }
    \cup { [shape |-> "ok", role |-> "user", content |-> c] :
             c \in {[text |-> "c4", len |-> 7, pad |-> 1]} }
    \cup { [shape |-> "ok", role |-> "assistant", content |-> c] :
             c \in {[text |-> "c5", len |-> 8000, pad |-> 0]} }

RawMessageLists ==
    UNION { [1..n -> RawMessages] : n \in 0..MaxMessages }

\* the language field: characters of a string
Languages ==
    { <<"e", "n">>, <<"'", " ">>, <<"d", "-", "'", "X">> }

\* a JSON body that decodes to an array; "missing" is an absent key
\* a key of the JSON body: absent, or present with a value
Missing == [isset |-> FALSE]
Given(v) == [isset |-> TRUE, value |-> v]

\* a JSON body that decodes to an array; the messages key holds a list or a
\* scalar
Bodies ==
    [valid : {TRUE},
     surveyId : {Missing, Given(0), Given(1)},
     messages : {Missing, Given([scalar |-> TRUE])}
                \cup { Given([scalar |-> FALSE, list |-> l]) : l \in RawMessageLists },
     maxTokens : {Missing, Given(100)},
     language : {Missing} \cup { Given(l) : l \in Languages }]

Requests ==
    [method : {"POST", "GET"},
     body : {[valid |-> FALSE]} \cup Bodies,
     session : {{}, {0}, {1}},
     permission : {"granted", "denied", "throws"},
     apiKey : {<<>>, <<" ">>, <<"s", "k">>}]

\* what curl_exec and the upstream service produce
Outcomes ==
    { [kind |-> "curl_error"], [kind |-> "empty_body"],
      [kind |-> "http_error"], [kind |-> "empty_content"] }
    \cup [kind : {"ok"}, content : {"r"}, tokens : {0, 12},
          finish : {"stop", "length"}]

\* (array) $body['messages']
ArrayCast(v) ==
    IF ~v.isset THEN <<>>
    ELSE IF v.value.scalar THEN <<[shape |-> "notArray"]>>
    ELSE v.value.list

Min(a, b) == IF a <= b THEN a ELSE b
Max(a, b) == IF a >= b THEN a ELSE b

RECURSIVE sanitizeMessages(_)
sanitizeMessages(messages) ==
    IF messages = <<>> THEN <<>>
    ELSE LET msg == Head(messages)
             rest == sanitizeMessages(Tail(messages))
         IN IF msg.shape # "ok" THEN rest
            ELSE IF msg.role \notin AllowedRoles THEN rest
            ELSE <<[role |-> msg.role,
                    content |-> [text |-> msg.content.text,
                                 len |-> Min(msg.content.len - msg.content.pad,
                                             MaxContentLen),
                                 instr |-> <<>>]]>> \o rest

LangChars ==
    {"a", "b", "d", "e", "n", "A", "X", "-"}

RECURSIVE KeepLangChars(_)
\* preg_replace('/[^a-zA-Z\-]/', '', $language)
KeepLangChars(language) ==
    IF language = <<>> THEN <<>>
    ELSE IF Head(language) \in LangChars
         THEN <<Head(language)>> \o KeepLangChars(Tail(language))
         ELSE KeepLangChars(Tail(language))

\* variant: an empty code is not replaced by 'en'
SanitizedLang_noDefault(language) == KeepLangChars(language)

SanitizedLang(language) ==
    LET lang == KeepLangChars(language)
    IN IF lang = <<>> THEN <<"e", "n">> ELSE lang

\* variant: the loop does not return at the first system message and the
\* last one is the one found
FirstSystem_last(messages) ==
    IF \E i \in DOMAIN messages : messages[i].role = "system"
    THEN CHOOSE i \in DOMAIN messages :
             /\ messages[i].role = "system"
             /\ \A j \in (i + 1)..Len(messages) : messages[j].role # "system"
    ELSE 0

\* index of the first system message, 0 if there is none
FirstSystem(messages) ==
    IF \E i \in DOMAIN messages : messages[i].role = "system"
    THEN CHOOSE i \in DOMAIN messages :
             /\ messages[i].role = "system"
             /\ \A j \in 1..(i - 1) : messages[j].role # "system"
    ELSE 0

injectLanguageInstruction(messages, language) ==
    LET lang == SanitizedLang(language)
        k == FirstSystem(messages)
    IN IF k # 0
       THEN [messages EXCEPT ![k].content =
                [@ EXCEPT !.instr = <<lang>> \o @,
                          !.len = InstructionLen + Len(lang) + 2 + @]]
       ELSE <<[role |-> "system",
               content |-> [text |-> "", len |-> InstructionLen + Len(lang),
                            instr |-> <<lang>>]]>> \o messages

\* variant: the completion content is not tested with empty()
callOpenAI_noEmptyCheck(outcome) ==
    IF outcome.kind = "curl_error" THEN [error |-> "Network error contacting AI service"]
    ELSE IF outcome.kind = "empty_body" THEN [error |-> "Empty response from AI service"]
    ELSE IF outcome.kind = "http_error" THEN [error |-> "AI service error"]
    ELSE IF outcome.kind = "empty_content"
    THEN [content |-> "", tokens_used |-> 0, finish_reason |-> "unknown"]
    ELSE [content |-> outcome.content, tokens_used |-> outcome.tokens,
          finish_reason |-> outcome.finish]

\* the result array of callOpenAI for an outcome of the transfer
callOpenAI(outcome) ==
    IF outcome.kind = "curl_error" THEN [error |-> "Network error contacting AI service"]
    ELSE IF outcome.kind = "empty_body" THEN [error |-> "Empty response from AI service"]
    ELSE IF outcome.kind = "http_error" THEN [error |-> "AI service error"]
    ELSE IF outcome.kind = "empty_content" THEN [error |-> "The AI returned an empty response"]
    ELSE [content |-> outcome.content, tokens_used |-> outcome.tokens,
          finish_reason |-> outcome.finish]

\* max(256, (int) ($maxTokens / 2))
maxCompletionTokens(n) == Max(MinCompletionTokens, n \div 2)

\* variant: the survey id is not required to be positive
hasSession_anyId(r, surveyId) == surveyId \in r.session

hasSession(r, surveyId) == surveyId > 0 /\ surveyId \in r.session

\* variant: a failing permission check counts as administrator
isAdmin_onThrow(r) == r.permission # "denied"

\* hasGlobalPermission('surveys', 'read'); an exception leaves $isAdmin false
isAdmin(r) == r.permission = "granted"

\* variant: a session and administrator rights are both required
accessDenied_either(r, surveyId) == ~hasSession(r, surveyId) \/ ~isAdmin(r)

\* !$hasSession && !$isAdmin
accessDenied(r, surveyId) == ~hasSession(r, surveyId) /\ ~isAdmin(r)

\* variant: the key is tested without trim
apiKeyMissing_noTrim(r) == r.apiKey = <<>>

\* empty(trim((string) $this->get('openai_api_key', ...)))
apiKeyMissing(r) == \A i \in DOMAIN r.apiKey : r.apiKey[i] = " "

\* variant: the check never finds the array empty
empty_never(a) == FALSE

\* empty($array)
empty(a) == a = <<>>

\* variant: the status code is left at the default of sendJsonResponse
ErrorResponse_default(status, msg) == [status |-> 200, body |-> [error |-> msg]]

ErrorResponse(status, msg) == [status |-> status, body |-> [error |-> msg]]

\* the response and the upstream calls of one request
handleChatRequest(r, outcome) ==
    IF r.method # "POST"
    THEN [resp |-> ErrorResponse(405, "Method not allowed. Use POST."), calls |-> <<>>]
    ELSE IF ~r.body.valid
    THEN [resp |-> ErrorResponse(400, "Invalid JSON body"), calls |-> <<>>]
    ELSE
    LET surveyId == IF r.body.surveyId.isset THEN r.body.surveyId.value ELSE 0
        messages == ArrayCast(r.body.messages)
        maxTok == IF r.body.maxTokens.isset
                  THEN r.body.maxTokens.value ELSE DefaultProxyMaxTokens
        language == IF r.body.language.isset
                    THEN r.body.language.value ELSE <<"e", "n">>
    IN
    IF empty(messages)
    THEN [resp |-> ErrorResponse(400, "Missing required field: messages"),
          calls |-> <<>>]
    ELSE IF accessDenied(r, surveyId)
    THEN [resp |-> ErrorResponse(403, "No active survey session"), calls |-> <<>>]
    ELSE IF apiKeyMissing(r)
    THEN [resp |-> ErrorResponse(503, "The AI service is not configured"),
          calls |-> <<>>]
    ELSE
    LET sanitizedMessages == sanitizeMessages(messages) IN
    IF empty(sanitizedMessages)
    THEN [resp |-> ErrorResponse(400, "No valid messages provided"), calls |-> <<>>]
    ELSE
    LET forwarded == injectLanguageInstruction(sanitizedMessages, language)
        result == callOpenAI(outcome)
        call == [messages |-> forwarded,
                 max_tokens |-> maxCompletionTokens(maxTok),
                 outcome |-> outcome.kind]
    IN IF "error" \in DOMAIN result
       THEN [resp |-> ErrorResponse(502, result.error), calls |-> <<call>>]
       ELSE [resp |-> [status |-> 200,
                       body |-> [reply |-> result.content,
                                 tokensUsed |-> result.tokens_used,
                                 finishReason |-> result.finish_reason]],
             calls |-> <<call>>]

NoRequest == [method |-> "none"]
NoResponse == [status |-> 0]

ProxyIdle == req = NoRequest /\ resp = NoResponse /\ upstream = <<>>

\* a request has arrived and has not been handled yet
ProxyReceived == req \in Requests /\ resp = NoResponse /\ upstream = <<>>

\* the request is handled to its response; requests are handled one by one
\* and share no state
HandleChatRequest ==
    /\ req # NoRequest
    /\ resp = NoResponse
    /\ \E outcome \in Outcomes :
          LET h == handleChatRequest(req, outcome) IN
          /\ resp' = h.resp
          /\ upstream' = h.calls
    /\ UNCHANGED <<req, widgetVars, rtVars, auxVars>>

(***************************************************************************)
(* Question-theme registration and the auxiliary endpoints reinstall,      *)
(* debug and testchat                                                      *)
(***************************************************************************)

\* upload/themes/question/AIInterview, and the directory of an earlier
\* installation
DestDir == "upload"
OldDir == "old"
ConfigXml(dir) == <<dir, "config.xml">>

\* the attributes of a table row that the handlers read
ThemeRow(path) ==
    [name |-> "AIInterview", visible |-> "Y", xml_path |-> path,
     extends |-> "", question_type |-> "T", core_theme |-> 0]
\* the row of a theme of the host
CoreRow ==
    [name |-> "longfreetext", visible |-> "Y", xml_path |-> "core",
     extends |-> "", question_type |-> "T", core_theme |-> 1]

ThemeTables == { <<CoreRow>>, <<CoreRow, ThemeRow(OldDir)>>,
                 <<ThemeRow(DestDir), CoreRow>> }
ThemeFileSets ==
    { {ConfigXml("core")},
      {ConfigXml("core"), <<OldDir>>, ConfigXml(OldDir)},
      {ConfigXml("core"), <<DestDir>>, ConfigXml(DestDir)} }

\* installations in a row that the model follows
MaxInstalls == 2

\* what mkdir and copy achieve
CopyOutcomes == {"copied", "mkdir_only", "failed"}

\* QuestionTheme::model()->findByAttributes(['name' => ...]): the index of
\* the first row of that name, 0 when there is none
findByAttributes(table, name) ==
    IF \E i \in DOMAIN table : table[i].name = name
    THEN CHOOSE i \in DOMAIN table :
             /\ table[i].name = name
             /\ \A j \in 1..(i - 1) : table[j].name # name
    ELSE 0

copyDirectory(files, dst, outcome) ==
    IF outcome = "copied" THEN files \cup {<<dst>>, ConfigXml(dst)}
    ELSE IF outcome = "mkdir_only" THEN files \cup {<<dst>>}
    ELSE files

\* variant: installQuestionTheme that keeps the existing record
installQuestionTheme_keep(table, files, copyOutcome, saveOk) ==
    [themes |-> IF saveOk THEN Append(table, ThemeRow(DestDir)) ELSE table,
     files |-> copyDirectory(files, DestDir, copyOutcome)]

\* the table and the files after installQuestionTheme
installQuestionTheme(table, files, copyOutcome, saveOk) ==
    LET existing == findByAttributes(table, "AIInterview")
        deleted == IF existing # 0 THEN RemoveAt(table, existing) ELSE table
    IN [themes |-> IF saveOk THEN Append(deleted, ThemeRow(DestDir))
                   ELSE deleted,
        files |-> copyDirectory(files, DestDir, copyOutcome)]

\* the table after uninstallQuestionTheme; QuestionTheme::uninstall is the
\* host's: it removes the record, or it declines or throws (caught and
\* logged) and the record stays
uninstallQuestionTheme(table, uninstalled) ==
    LET oTheme == findByAttributes(table, "AIInterview") IN
    IF oTheme # 0 /\ uninstalled THEN RemoveAt(table, oTheme) ELSE table

\* the lifecycle history: the last operation that ran, whether its write
\* to the table succeeded, and the number of installations that succeeded
\* since the last deactivation
NotOperated == [op |-> "none", ok |-> FALSE, installs |-> 0]
Operated(l, op, ok) ==
    [op |-> op, ok |-> ok,
     installs |-> IF op = "deactivate" THEN 0
                  ELSE IF ok THEN l.installs + 1 ELSE l.installs]

\* the requester's global permissions; a permission check can throw
Requesters ==
    { [superadmin |-> "granted", surveys |-> "granted"],
      [superadmin |-> "denied", surveys |-> "granted"],
      [superadmin |-> "denied", surveys |-> "denied"],
      [superadmin |-> "throws", surveys |-> "throws"] }

ModelNames == { <<>>, <<" ">>, <<"m">> }

AuxRequests ==
    [function : {"reinstall", "debug", "testchat"},
     method : {"GET", "POST"},
     requester : Requesters,
     apiKey : {<<>>, <<" ">>, <<"s", "k">>},
     model : ModelNames]

\* an exception that no handler catches: the host answers
HostError == [status |-> 500, body |-> [error |-> "Internal Server Error"]]

\* Permission::model()->hasGlobalPermission('superadmin', 'read')
isSuperadmin(r) == r.requester.superadmin = "granted"

\* is_file($oTheme->xml_path . '/config.xml')
xmlExists(row, files) == ConfigXml(row.xml_path) \in files

\* the response, the table and the files of one reinstall request
handleReinstallRequest(r, table, files, copyOutcome, saveOk) ==
    IF r.requester.superadmin = "throws"
    THEN [resp |-> HostError, themes |-> table, files |-> files]
    ELSE IF ~isSuperadmin(r)
    THEN [resp |-> ErrorResponse(403, "Unauthorized"),
          themes |-> table, files |-> files]
    ELSE
    LET inst == installQuestionTheme(table, files, copyOutcome, saveOk)
        oTheme == findByAttributes(inst.themes, "AIInterview")
        xmlOk == oTheme # 0 /\ xmlExists(inst.themes[oTheme], inst.files)
    IN [resp |-> [status |-> 200,
                  body |-> [success |-> TRUE,
                            registered |-> oTheme # 0,
                            xml_ok |-> xmlOk,
                            xml_path |-> IF oTheme # 0
                                         THEN Given(inst.themes[oTheme].xml_path)
                                         ELSE Missing,
                            extends |-> IF oTheme # 0
                                        THEN Given(inst.themes[oTheme].extends)
                                        ELSE Missing,
                            message |-> IF xmlOk THEN "Theme reinstalled successfully"
                                        ELSE "config.xml not found at xml_path"]],
        themes |-> inst.themes, files |-> inst.files]

\* the entry of a row in all_visible_themes
ThemeListEntry(row, files) ==
    [name |-> row.name, question_type |-> row.question_type,
     extends |-> row.extends, xml_path |-> row.xml_path,
     xml_exists |-> xmlExists(row, files)]

\* the response of one debug request
handleDebugRequest(r, table, files) ==
    IF r.requester.superadmin = "throws" THEN HostError
    ELSE IF ~isSuperadmin(r) THEN ErrorResponse(403, "Unauthorized")
    ELSE
    LET oTheme == findByAttributes(table, "AIInterview")
        visible == SelectSeq(table, LAMBDA row : row.visible = "Y")
    IN [status |-> 200,
        body |-> [expected_destDir |-> DestDir,
                  destDir_exists |-> <<DestDir>> \in files,
                  config_xml_exists |-> ConfigXml(DestDir) \in files,
                  db_record |-> IF oTheme # 0
                                THEN Given(ThemeListEntry(table[oTheme], files))
                                ELSE Missing,
                  all_visible_themes |->
                      [i \in DOMAIN visible |-> ThemeListEntry(visible[i], files)]]]

\* $model ?: 'gpt-4o' after trim
modelName(r) ==
    IF \A i \in DOMAIN r.model : r.model[i] = " " THEN <<"gpt-4o">> ELSE r.model

\* variant: the response carries the key itself
handleTestChatRequest_showKey(r) ==
    [status |-> 200,
     body |-> [status |-> "ok",
               method |-> r.method,
               api_key |-> r.apiKey,
               model |-> modelName(r),
               is_admin |-> r.requester.surveys = "granted"]]

\* the response of one testchat request
handleTestChatRequest(r) ==
    [status |-> 200,
     body |-> [status |-> "ok",
               method |-> r.method,
               api_key_set |-> ~apiKeyMissing(r),
               model |-> modelName(r),
               is_admin |-> r.requester.surveys = "granted"]]

(***************************************************************************)
(* Question rendering: afterRenderQuestion and beforeQuestionRender        *)
(***************************************************************************)

DefaultAttrMaxTokens == 6000

\* htmlspecialchars($text, ENT_QUOTES, 'UTF-8') on one character
EscapeChar(c) ==
    IF c = "&" THEN <<"&", "a", "m", "p", ";">>
    ELSE IF c = "<" THEN <<"&", "l", "t", ";">>
    ELSE IF c = "\"" THEN <<"&", "q", "u", "o", "t", ";">>
    ELSE <<c>>

RECURSIVE htmlspecialchars(_)
htmlspecialchars(text) ==
    IF text = <<>> THEN <<>>
    ELSE EscapeChar(Head(text)) \o htmlspecialchars(Tail(text))

\* the text of getDefaultPrompt
DefaultPrompt == <<"d", "e", "f">>

AttrTexts == { <<>>, <<"SP">>, <<"p", "<", "&">> }

\* a question, its attributes, the session and the plugin settings at the
\* time of the render event
Questions ==
    [event : {"afterRenderQuestion", "beforeQuestionRender"},
     found : BOOLEAN,
     theme : {"AIInterview", "longfreetext"},
     promptAttr : {Missing} \cup { Given(t) : t \in AttrTexts },
     maxTokensAttr : {Missing, Given(3)},
     mandatoryAttr : {Missing, Given("1")},
     language : {<<"e", "n">>},
     answer : {Missing, Given(<<"U:", "SP", "\"">>)},
     apiKey : {<<>>, <<"s", "k">>}]

NoQuestion == [event |-> "none"]
NoPage == [rendered |-> "no"]

\* getQuestionAttribute: the default for a missing, null or '' value
getQuestionAttribute(attr, empty_value, default) ==
    IF attr.isset /\ attr.value # empty_value THEN attr.value ELSE default

\* question_theme_name === 'AIInterview', or a non-blank prompt attribute
isAIInterview(q) ==
    \/ q.theme = "AIInterview"
    \/ q.promptAttr.isset /\ Trim(q.promptAttr.value) # <<>>

buildWidgetHtml(surveyId, prompt, maxTok, language, mandatory, dispVal) ==
    [rendered |-> "widget",
     surveyId |-> surveyId,
     ajaxUrl |-> htmlspecialchars(<<"chat">>),
     prompt |-> htmlspecialchars(prompt),
     maxTokens |-> maxTok,
     language |-> htmlspecialchars(language),
     mandatory |-> mandatory,
     answer |-> htmlspecialchars(dispVal)]

\* the markup the render event hands to the browser; none when the
\* handler returns early
renderQuestion(q) ==
    IF ~q.found \/ ~isAIInterview(q) THEN NoPage
    ELSE
    LET prompt == getQuestionAttribute(q.promptAttr, <<>>, DefaultPrompt)
        maxTok == getQuestionAttribute(q.maxTokensAttr, 0, DefaultAttrMaxTokens)
        mandatory == getQuestionAttribute(q.mandatoryAttr, "", "0")
        dispVal == IF q.event = "afterRenderQuestion" /\ q.answer.isset
                   THEN htmlspecialchars(q.answer.value) ELSE <<>>
    IN buildWidgetHtml(1, prompt, maxTok, q.language, mandatory, dispVal)

QuestionReceived ==
    /\ auxReq = NoRequest /\ auxResp = NoResponse
    /\ themes = <<CoreRow>> /\ themeFiles = {ConfigXml("core")}
    /\ lifecycle = NotOperated
    /\ question \in Questions /\ page = NoPage

RenderQuestion ==
    /\ question # NoQuestion
    /\ page = NoPage
    /\ page' = renderQuestion(question)
    /\ UNCHANGED <<question, auxReq, auxResp, themes, themeFiles, lifecycle,
                   widgetVars, proxyVars, rtVars>>

AuxIdle ==
    /\ auxReq = NoRequest /\ auxResp = NoResponse
    /\ themes = <<CoreRow>> /\ themeFiles = {ConfigXml("core")}
    /\ lifecycle = NotOperated
    /\ question = NoQuestion /\ page = NoPage

\* a request has arrived and has not been handled yet
AuxReceived ==
    /\ auxReq \in AuxRequests /\ auxResp = NoResponse
    /\ themes \in ThemeTables /\ themeFiles \in ThemeFileSets
    /\ lifecycle = NotOperated
    /\ question = NoQuestion /\ page = NoPage

HandleReinstallRequest ==
    /\ auxReq # NoRequest /\ auxReq.function = "reinstall"
    /\ auxResp = NoResponse
    /\ \E copyOutcome \in CopyOutcomes, saveOk \in BOOLEAN :
          LET h == handleReinstallRequest(auxReq, themes, themeFiles,
                                          copyOutcome, saveOk) IN
          /\ auxResp' = h.resp
          /\ themes' = h.themes
          /\ themeFiles' = h.files
          /\ lifecycle' = IF isSuperadmin(auxReq)
                          THEN Operated(lifecycle, "reinstall", saveOk)
                          ELSE lifecycle
    /\ UNCHANGED <<auxReq, question, page, widgetVars, proxyVars, rtVars>>

HandleDebugRequest ==
    /\ auxReq # NoRequest /\ auxReq.function = "debug"
    /\ auxResp = NoResponse
    /\ auxResp' = handleDebugRequest(auxReq, themes, themeFiles)
    /\ UNCHANGED <<auxReq, themes, themeFiles, lifecycle, question, page,
                   widgetVars, proxyVars, rtVars>>

HandleTestChatRequest ==
    /\ auxReq # NoRequest /\ auxReq.function = "testchat"
    /\ auxResp = NoResponse
    /\ auxResp' = handleTestChatRequest(auxReq)
    /\ UNCHANGED <<auxReq, themes, themeFiles, lifecycle, question, page,
                   widgetVars, proxyVars, rtVars>>

\* beforeActivate
Activate ==
    /\ lifecycle.installs < MaxInstalls
    /\ \E copyOutcome \in CopyOutcomes, saveOk \in BOOLEAN :
          LET inst == installQuestionTheme(themes, themeFiles, copyOutcome,
                                           saveOk) IN
          /\ themes' = inst.themes
          /\ themeFiles' = inst.files
          /\ lifecycle' = Operated(lifecycle, "activate", saveOk)
    /\ UNCHANGED <<auxReq, auxResp, question, page, widgetVars, proxyVars,
                   rtVars>>

\* beforeDeactivate
Deactivate ==
    /\ \E uninstalled \in BOOLEAN :
          /\ themes' = uninstallQuestionTheme(themes, uninstalled)
          /\ lifecycle' = Operated(lifecycle, "deactivate", uninstalled)
    /\ UNCHANGED <<auxReq, auxResp, themeFiles, question, page, widgetVars,
                   proxyVars, rtVars>>

\* a reinstall request arrives once the previous one has been answered
ReinstallRequested ==
    /\ lifecycle.installs < MaxInstalls
    /\ auxReq = NoRequest \/ auxResp # NoResponse
    /\ auxReq' \in {r \in AuxRequests : r.function = "reinstall"}
    /\ auxResp' = NoResponse
    /\ UNCHANGED <<themes, themeFiles, lifecycle, question, page, widgetVars,
                   proxyVars, rtVars>>

(***************************************************************************)
(* Specifications                                                          *)
(***************************************************************************)

(***************************************************************************)
(* Round trip: a session writes the answer field, the respondent navigates *)
(* back, and initWidget runs on the saved answer                           *)
(***************************************************************************)

\* bound on the number of messages of the session
MaxRtMsgs == 3

RtConfig ==
    [prompt |-> <<"p">>, maxTokensAttr |-> 0, mandatory |-> FALSE, hasRetry |-> FALSE]

\* texts typed with Enter and Shift+Enter
RtInputTexts ==
    { <<"a">>, <<"a", "SP", "b">>, <<"a", "NL", "b">>,
      <<"a", "NL", "U:", "SP", "b">> }
\* texts of the data.reply field
RtReplyTexts ==
    { <<"r">>, <<"r", "NL", "NL", "b">>, <<"r", "NL", "I:", "SP", "b">> }

RoundTripIdle ==
    /\ rtSession = Fresh(RtConfig, <<>>)
    /\ rtPhase = "none"
    /\ rtRestored = Fresh(RtConfig, <<>>)

RoundTripInit ==
    /\ rtSession = initWidget(RtConfig, <<>>)
    /\ rtPhase = "session"
    /\ rtRestored = Fresh(RtConfig, <<>>)

\* the respondent types a text and sends it
RtSend ==
    /\ rtPhase = "session"
    /\ ~rtSession.sendDisabled /\ rtSession.inputAreaShown
    /\ Len(rtSession.bubbles) < MaxRtMsgs
    /\ \E t \in RtInputTexts :
          rtSession' = sendUserMessage([rtSession EXCEPT !.inputValue = t])
    /\ UNCHANGED <<rtPhase, rtRestored, widgetVars, proxyVars, auxVars>>

\* a call completes with a reply
RtReply ==
    /\ rtPhase = "session"
    /\ Len(rtSession.bubbles) < MaxRtMsgs
    /\ \E i \in DOMAIN rtSession.inflight, reply \in RtReplyTexts :
          LET s == [rtSession EXCEPT !.inflight = RemoveAt(@, i)] IN
          rtSession' = IF rtSession.inflight[i].kind = "send"
                       THEN onSendSuccess(s, reply, 0)
                       ELSE onOpeningSuccess(s, reply, 0)
    /\ UNCHANGED <<rtPhase, rtRestored, widgetVars, proxyVars, auxVars>>

\* the respondent presses Finish
RtFinish ==
    /\ rtPhase = "session"
    /\ rtSession.finishBtnShown /\ rtSession.inputAreaShown
    /\ rtSession' = finishInterview(rtSession, FALSE)
    /\ UNCHANGED <<rtPhase, rtRestored, widgetVars, proxyVars, auxVars>>

\* the answer is saved with the page and rendered again on back-navigation
RtBack ==
    /\ rtPhase = "session"
    /\ rtSession.bubbles # <<>>
    /\ rtRestored' = initWidget(RtConfig, rtSession.answerField)
    /\ rtPhase' = "back"
    /\ UNCHANGED <<rtSession, widgetVars, proxyVars, auxVars>>

\* the client widget
Init == WidgetInit /\ ProxyIdle /\ RoundTripIdle /\ AuxIdle
Next ==
    \/ TypeText
    \/ SendClick
    \/ EnterKey
    \/ FinishClick
    \/ RetryClick
    \/ SkipClick
    \/ SubmitForm
    \/ ReplyArrives
    \/ CallFails
Spec == Init /\ [][Next]_vars

\* the chat proxy
ProxyInit == WidgetAbsent /\ ProxyReceived /\ RoundTripIdle /\ AuxIdle
ProxyNext == HandleChatRequest
ProxySpec == ProxyInit /\ [][ProxyNext]_vars

\* the round trip
RtInit ==
    /\ cfg = RtConfig /\ restored = FALSE /\ lastEvent = "none"
    /\ InitFrom(Fresh(RtConfig, <<>>))
    /\ ProxyIdle /\ RoundTripInit /\ AuxIdle
RtNext == RtSend \/ RtReply \/ RtFinish \/ RtBack
RoundTripSpec == RtInit /\ [][RtNext]_vars

\* bound on the length of the messages list of a chat request of DirectSpec
MaxDirectMessages == 1

\* a chat request has arrived and has not been handled yet
ChatReceived ==
    /\ ProxyReceived
    /\ req.body.valid => Len(ArrayCast(req.body.messages)) <= MaxDirectMessages

\* the plugin's output to a browser: a request to one of the four functions
\* of newDirectRequest, or a render event
DirectInit ==
    /\ WidgetAbsent /\ RoundTripIdle
    /\ \/ ChatReceived /\ AuxIdle
       \/ ProxyIdle /\ AuxReceived
       \/ ProxyIdle /\ QuestionReceived
DirectNext ==
    \/ HandleChatRequest
    \/ HandleReinstallRequest
    \/ HandleDebugRequest
    \/ HandleTestChatRequest
    \/ RenderQuestion
DirectSpec == DirectInit /\ [][DirectNext]_vars

\* the lifecycle of the question-theme registration: activation,
\* deactivation and reinstall requests in any order
LifecycleInit ==
    /\ WidgetAbsent /\ RoundTripIdle /\ ProxyIdle
    /\ auxReq = NoRequest /\ auxResp = NoResponse
    /\ themes \in ThemeTables /\ themeFiles \in ThemeFileSets
    /\ lifecycle = NotOperated
    /\ question = NoQuestion /\ page = NoPage
LifecycleNext ==
    \/ Activate
    \/ Deactivate
    \/ ReinstallRequested
    \/ HandleReinstallRequest
LifecycleSpec == LifecycleInit /\ [][LifecycleNext]_vars

(***************************************************************************)
(* Properties of the chat proxy (ProxySpec)                                *)
(***************************************************************************)

Handled == resp # NoResponse

\* the surveyId field of the request, 0 when absent
ReqSurveyId(r) ==
    IF r.body.valid /\ r.body.surveyId.isset THEN r.body.surveyId.value ELSE 0

\* the request comes with an active session of its survey
ReqInSession(r) == ReqSurveyId(r) > 0 /\ ReqSurveyId(r) \in r.session

\* the request has neither an active session nor administrator rights
ReqUnauthorized(r) == ~ReqInSession(r) /\ r.permission # "granted"

\* the messages list of the request is empty or missing
ReqNoMessages(r) ==
    \/ ~r.body.valid
    \/ ~r.body.messages.isset
    \/ /\ ~r.body.messages.value.scalar
       /\ r.body.messages.value.list = <<>>

\* C1: every message passed to the upstream call has a role in
\* {system, user, assistant} and a content of at most 8000 characters.
C1_ForwardedWithinLimits ==
    \A i \in DOMAIN upstream :
        \A j \in DOMAIN upstream[i].messages :
            /\ upstream[i].messages[j].role \in AllowedRoles
            /\ upstream[i].messages[j].content.len <= MaxContentLen

\* C2 as claimed: a request with neither a session nor administrator rights
\* gets status 403 and no upstream call, whatever the rest of the request.
C2_UnauthorizedAlways403 ==
    (Handled /\ ReqUnauthorized(req)) => (resp.status = 403 /\ upstream = <<>>)

\* C2 as amended: a request with neither a session nor administrator rights
\* never reaches the upstream call and gets a 4xx status: 405 when the method
\* is not POST, otherwise 400 when the body is not a JSON object or its
\* messages list is empty or missing, otherwise 403.
C2_UnauthorizedRejected ==
    (Handled /\ ReqUnauthorized(req)) =>
        /\ upstream = <<>>
        /\ resp.status = IF req.method # "POST" THEN 405
                         ELSE IF ReqNoMessages(req) THEN 400
                         ELSE 403

C2_Witness ==
    /\ Handled /\ ReqUnauthorized(req)
    /\ req.permission = "throws"
    /\ req.apiKey = <<"s", "k">>
    /\ resp.status = 403

\* C3: a request whose messages list is empty or missing gets a 4xx status
\* and no upstream call, whatever the session, administrator and credential
\* state.
C3_NoMessagesRejected ==
    (Handled /\ ReqNoMessages(req)) =>
        (resp.status \in 400..499 /\ upstream = <<>>)

C3_Witness ==
    /\ Handled /\ req.method = "POST" /\ req.body.valid
    /\ req.body.messages.isset
    /\ ~req.body.messages.value.scalar
    /\ req.body.messages.value.list = <<>>
    /\ req.permission = "granted"
    /\ req.apiKey = <<"s", "k">>
    /\ resp.status = 400

\* the entries of the messages field, as the handler iterates over them
ReqMessages(r) == IF r.body.valid THEN ArrayCast(r.body.messages) ELSE <<>>

\* an entry with a role in {system, user, assistant} and a content field
ValidEntry(m) ==
    m.shape = "ok" /\ m.role \in {"system", "user", "assistant"}

\* the messages list is non-empty and holds no valid entry
ReqNoValidMessage(r) ==
    /\ ReqMessages(r) # <<>>
    /\ \A i \in DOMAIN ReqMessages(r) : ~ValidEntry(ReqMessages(r)[i])

\* the input of the request is malformed
ReqMalformed(r) ==
    ~r.body.valid \/ ReqNoMessages(r) \/ ReqNoValidMessage(r)

\* no API credential is configured, or a blank one
ReqKeyBlank(r) == \A i \in DOMAIN r.apiKey : r.apiKey[i] = " "

C16_NoCredential503 ==
    (Handled /\ req.method = "POST" /\ ~ReqNoMessages(req)
       /\ ~ReqUnauthorized(req) /\ ReqKeyBlank(req)) =>
        /\ resp.status = 503
        /\ DOMAIN resp.body = {"error"}
        /\ upstream = <<>>

C16_Witness ==
    /\ Handled /\ req.method = "POST" /\ ~ReqMalformed(req)
    /\ ReqInSession(req) /\ req.permission = "denied"
    /\ req.apiKey = <<" ">>
    /\ resp.status = 503

\* the upstream call was made and failed
UpstreamFailed == upstream # <<>> /\ upstream[1].outcome # "ok"

\* C17: when the upstream call was made and failed the response is 502 with
\* an error body, and the response is 200 only when the upstream call was
\* made and returned status 200 with non-empty completion content.
C17_UpstreamFailure502 ==
    Handled =>
        /\ UpstreamFailed => (resp.status = 502 /\ DOMAIN resp.body = {"error"})
        /\ resp.status = 200 => (upstream # <<>> /\ upstream[1].outcome = "ok")

C17_Witness ==
    /\ Handled /\ upstream # <<>> /\ upstream[1].outcome = "empty_content"
    /\ resp.status = 502

ReqPassesEveryCheck(r) ==
    /\ r.method = "POST" /\ r.body.valid /\ ~ReqNoMessages(r)
    /\ ~ReqUnauthorized(r) /\ ~ReqKeyBlank(r) /\ ~ReqNoValidMessage(r)

ReqSanitized(r) ==
    LET valid == SelectSeq(ReqMessages(r), ValidEntry)
    IN [i \in DOMAIN valid |->
           [role |-> valid[i].role,
            content |-> [text |-> valid[i].content.text,
                         len |-> IF valid[i].content.len - valid[i].content.pad
                                      <= MaxContentLen
                                 THEN valid[i].content.len - valid[i].content.pad
                                 ELSE MaxContentLen,
                         instr |-> <<>>]]]

\* the message carries the language instruction, once
CarriesInstruction(m) == Len(m.content.instr) = 1

\* m is the message s with the instruction and a blank line put in front
InstructionPrepended(m, s) ==
    /\ m.role = s.role /\ m.content.text = s.content.text
    /\ CarriesInstruction(m)
    /\ m.content.len =
           InstructionLen + Len(m.content.instr[1]) + 2 + s.content.len

\* C21: the forwarded list carries the language instruction in exactly one
\* message: in the first system message of the sanitized list, every other
\* message being forwarded unchanged, or without a system message in a new
\* system message at position 0 that the sanitized messages follow unchanged
\* and in order.
C21_InstructionInOneMessage ==
    \A c \in DOMAIN upstream :
        LET fwd == upstream[c].messages
            san == ReqSanitized(req)
            systems == { i \in DOMAIN san : san[i].role = "system" }
        IN /\ Cardinality({ j \in DOMAIN fwd : fwd[j].content.instr # <<>> }) = 1
           /\ IF systems # {}
              THEN /\ Len(fwd) = Len(san)
                   /\ \A i \in DOMAIN san :
                        IF i \in systems /\ \A j \in systems : i <= j
                        THEN InstructionPrepended(fwd[i], san[i])
                        ELSE fwd[i] = san[i]
              ELSE /\ Len(fwd) = Len(san) + 1
                   /\ fwd[1].role = "system" /\ fwd[1].content.text = ""
                   /\ CarriesInstruction(fwd[1])
                   /\ fwd[1].content.len
                          = InstructionLen + Len(fwd[1].content.instr[1])
                   /\ \A i \in DOMAIN san : fwd[i + 1] = san[i]

C21_Witness ==
    /\ upstream # <<>>
    /\ Len(upstream[1].messages) = 2
    /\ upstream[1].messages[1].role = "system"
    /\ upstream[1].messages[2].role = "system"
    /\ upstream[1].messages[1].content.instr # <<>>
    /\ upstream[1].messages[1].content.text # upstream[1].messages[2].content.text

ReqLanguage(r) ==
    IF r.body.valid /\ r.body.language.isset
    THEN r.body.language.value ELSE <<"e", "n">>

\* an ASCII letter or a hyphen
LetterOrHyphen(c) == c \notin {"'", " "}

\* C25: the language code of the injected instruction is the language field
\* of the request without the characters that are neither ASCII letters nor
\* hyphens, or 'en' when nothing is left; it is never empty.
C25_LanguageCodeSanitized ==
    \A c \in DOMAIN upstream :
        \A j \in DOMAIN upstream[c].messages :
            \A k \in DOMAIN upstream[c].messages[j].content.instr :
                LET lang == upstream[c].messages[j].content.instr[k]
                    kept == SelectSeq(ReqLanguage(req), LetterOrHyphen)
                IN /\ lang # <<>>
                   /\ \A i \in DOMAIN lang : LetterOrHyphen(lang[i])
                   /\ lang = IF kept = <<>> THEN <<"e", "n">> ELSE kept

C25_Witness ==
    /\ upstream # <<>>
    /\ ReqLanguage(req) = <<"d", "-", "'", "X">>
    /\ \E j \in DOMAIN upstream[1].messages :
          upstream[1].messages[j].content.instr = << <<"d", "-", "X">> >>

(***************************************************************************)
(* Properties of the auxiliary endpoints (DirectSpec)                      *)
(***************************************************************************)

\* both global permissions the handlers test are refused to the requester
NotAdministrator(r) ==
    r.requester.superadmin = "denied" /\ r.requester.surveys = "denied"

\* C14: a reinstall, debug or testchat request of a requester without
\* administrator permission is answered with status 403 and an error body,
\* and leaves the theme registration and the theme files as they were.
C14_AuxiliaryAdminOnly ==
    [][(auxReq # NoRequest /\ NotAdministrator(auxReq)) =>
          /\ auxResp'.status = 403
          /\ DOMAIN auxResp'.body = {"error"}
          /\ themes' = themes /\ themeFiles' = themeFiles]_vars

\* values of the openai_api_key setting: unset, blank, and two keys
KeyValues == { <<>>, <<" ">>, <<"s", "k">>, <<"s", "q">> }
ConfiguredKeys == { k \in KeyValues : \E i \in DOMAIN k : k[i] # " " }

\* the same request or question in a run where the key is k
WithKey(r, k) == [r EXCEPT !.apiKey = k]

\* the key of the run
CurrentKey ==
    IF req # NoRequest THEN req.apiKey
    ELSE IF auxReq # NoRequest THEN auxReq.apiKey
    ELSE question.apiKey

\* the output of this step is the output the same step has in a run that
\* differs only in the key, which is k there: same request, same table and
\* files, same upstream outcome, same outcome of the copy and of the save
SameOutputWithKey(k) ==
    /\ (req # NoRequest /\ resp' # resp) =>
          \A o \in Outcomes :
              handleChatRequest(req, o).resp = resp'
                  => handleChatRequest(WithKey(req, k), o).resp = resp'
    /\ (auxReq # NoRequest /\ auxResp' # auxResp) =>
          IF auxReq.function = "testchat"
          THEN handleTestChatRequest(WithKey(auxReq, k)) = auxResp'
          ELSE IF auxReq.function = "debug"
          THEN handleDebugRequest(WithKey(auxReq, k), themes, themeFiles)
                   = auxResp'
          ELSE \A c \in CopyOutcomes, ok \in BOOLEAN :
                  LET h == handleReinstallRequest(auxReq, themes, themeFiles,
                                                  c, ok)
                  IN (h.resp = auxResp' /\ h.themes = themes'
                        /\ h.files = themeFiles')
                       => handleReinstallRequest(WithKey(auxReq, k), themes,
                                                 themeFiles, c, ok).resp
                              = auxResp'
    /\ (question # NoQuestion /\ page' # page) =>
          renderQuestion(WithKey(question, k)) = page'

\* C20 as claimed: the widget markup, the chat response and the testchat,
\* debug and reinstall responses are the same in two runs that differ only
\* in the value of the API key.
C20_SameOutputForAnyKey ==
    [][\A k \in KeyValues : SameOutputWithKey(k)]_vars

\* C20 as amended: the widget markup, the chat response and the testchat,
\* debug and reinstall responses are the same in two runs that differ only
\* in the value of a configured (non-blank) API key.
C20_SameOutputForConfiguredKeys ==
    [][\A k \in ConfiguredKeys :
          CurrentKey \in ConfiguredKeys => SameOutputWithKey(k)]_vars

C20_Witness ==
    /\ auxReq # NoRequest /\ auxReq.function = "testchat"
    /\ auxReq.apiKey = <<"s", "k">>
    /\ auxResp # NoResponse /\ auxResp.status = 200
    /\ auxResp.body.api_key_set

(***************************************************************************)
(* Properties of the client widget (Spec)                                  *)
(***************************************************************************)

\* the value ends with the line '--- Interview concluded ---'
EndsWithMarker(v) ==
    /\ Len(v) >= 1
    /\ v[Len(v)] = "MARK"
    /\ Len(v) > 1 => v[Len(v) - 1] = "NL"

\* a reply has been processed
ReplyProcessed == \E i \in DOMAIN bubbles : bubbles[i].role = "assistant"

\* the respondent has sent a message
UserMessageSent == \E i \in DOMAIN bubbles : bubbles[i].role = "user"

\* a user message has been answered by an interviewer reply
CompleteExchange ==
    \E i \in DOMAIN bubbles, j \in DOMAIN bubbles :
        i < j /\ bubbles[i].role = "user" /\ bubbles[j].role = "assistant"

\* a submit event of the host form has just been dispatched
SubmitDispatched == lastEvent \in {"submit_blocked", "submit_passed"}

\* C4: at most one AI proxy call is in flight at any time.
C4_AtMostOneInFlight == Len(inflight) <= 1

\* C5: once the interview has been concluded by Finish or by the token
\* budget, the answer field ends with the concluded marker line.
C5_ConcludedEndsWithMarker ==
    finishedBy \in {"finish", "budget"} => EndsWithMarker(answerField)

\* C6 as claimed: in a non-restored session the widget is finished as soon
\* as a processed reply makes tokensUsed >= maxTokens, and is never finished
\* while tokensUsed < maxTokens.
C6_FinishedExactlyAtBudget ==
    ~restored =>
        /\ (ReplyProcessed /\ tokensUsed >= maxTokens) => finished
        /\ finished => tokensUsed >= maxTokens

\* C6 as amended: in a non-restored session the widget is finished as soon
\* as a processed reply makes tokensUsed >= maxTokens, and it is finished
\* while tokensUsed < maxTokens only after Finish or Skip was pressed.
C6_FinishedAtBudgetOrByUser ==
    ~restored =>
        /\ (ReplyProcessed /\ tokensUsed >= maxTokens) => finished
        /\ (finished /\ tokensUsed < maxTokens) => finishedBy \in {"finish", "skip"}

C6_Witness ==
    /\ ~restored /\ finished /\ finishedBy = "budget"
    /\ tokensUsed = maxTokens /\ ReplyProcessed

\* C7: tokensUsed never decreases over any widget event.
C7_TokensMonotonic == [][tokensUsed' >= tokensUsed]_vars

C7_Witness ==
    /\ tokensUsed > 0 /\ Len(bubbles) >= 3 /\ lastEvent = "reply"

\* C8: with a positive budget, tokensUsed >= maxTokens implies finished in
\* every state between two event handlers.
C8_BudgetReachedImpliesFinished ==
    (maxTokens > 0 /\ tokensUsed >= maxTokens) => finished

C8_Witness ==
    /\ cfg.maxTokensAttr > 0 /\ tokensUsed > maxTokens
    /\ finished /\ finishedBy = "budget" /\ tokenWarnShown

\* C10 as claimed: with the mandatory flag set, a submit event is blocked
\* whenever the widget is not finished and no user message has yet been
\* answered by an interviewer reply.
C10_BlockedWithoutExchange ==
    (SubmitDispatched /\ cfg.mandatory /\ ~finished /\ ~CompleteExchange)
        => lastEvent = "submit_blocked"

\* C10 as amended: with the mandatory flag set, a submit event is blocked
\* whenever the widget is not finished and the transcript holds fewer than
\* two lines, in particular whenever the respondent has not sent a message.
C10_BlockedWithoutMessage ==
    (SubmitDispatched /\ cfg.mandatory /\ ~finished
       /\ (Len(transcriptLines) < 2 \/ ~UserMessageSent))
        => lastEvent = "submit_blocked"

C10_Witness ==
    /\ lastEvent = "submit_blocked" /\ cfg.mandatory /\ ~finished
    /\ ReplyProcessed /\ ~UserMessageSent

\* C11: with the mandatory flag set, in a non-restored session a submit of
\* the host form is let through only if the respondent has sent at least
\* one message during the session.
C11_SubmitNeedsUserMessage ==
    (lastEvent = "submit_passed" /\ cfg.mandatory /\ ~restored)
        => UserMessageSent

\* the widget is in the skipped state and the answer field holds the sentinel
SkippedWithSentinel == finished /\ answerField = SkipSentinel

\* C12: pressing Skip leaves the widget finished with the sentinel in the
\* answer field, and every later event keeps it so.
C12_SentinelKept ==
    [][/\ lastEvent' = "skip" => SkippedWithSentinel'
       /\ (~restored /\ SkippedWithSentinel) => SkippedWithSentinel']_vars

\* C13: a widget initialised with a prior answer is in the restored state,
\* and a restored widget has issued no AI proxy call, whatever the
\* respondent has done since.
C13_RestoredNeverCalls ==
    /\ (lastEvent = "init" /\ IsPriorAnswer(answerField)) => restored
    /\ restored => (finished /\ callsMade = 0 /\ inflight = <<>>)

C13_Witness ==
    /\ restored /\ lastEvent = "submit_passed" /\ cfg.mandatory
    /\ bubbles # <<>> /\ callsMade = 0

\* C22: the widget issues at most one call when it initialises, and after
\* that a call is issued only by the handler of a Send click, an Enter key
\* or a Retry click, one call per such event; the completion of a call, and
\* in particular its failure, issues none.
C22_CallsOnlyByUserAction ==
    /\ [](lastEvent = "init" => callsMade <= 1)
    /\ [][/\ callsMade' # callsMade =>
               /\ callsMade' = callsMade + 1
               /\ lastEvent' \in {"send", "enter", "retry"}
          /\ Len(inflight') > Len(inflight) => callsMade' = callsMade + 1
          /\ lastEvent' = "error" =>
               (callsMade' = callsMade /\ Len(inflight') < Len(inflight))]_vars

C22_Witness ==
    /\ lastEvent = "retry" /\ callsMade = 2 /\ Len(inflight) = 1
    /\ bubbles = <<>> /\ ~errorShown

\* C23: while the error banner is shown Skip is available; a failed call
\* shows the banner, and the banner goes away only by Skip or by a Retry
\* whose call is pending; Skip finishes the widget, and a finished widget
\* never blocks a submit of the form.
C23_SkipLeadsToSubmit ==
    /\ []((~restored /\ errorShown) => ENABLED SkipClick)
    /\ [](finished => lastEvent # "submit_blocked")
    /\ [][/\ lastEvent' = "error" => errorShown'
          /\ (errorShown /\ ~errorShown') =>
               \/ lastEvent' = "skip"
               \/ lastEvent' = "retry" /\ inflight' # <<>>
          /\ lastEvent' = "skip" => finished']_vars

C23_Witness ==
    /\ lastEvent = "submit_passed" /\ cfg.mandatory /\ ~restored
    /\ finishedBy = "skip" /\ callsMade >= 2
    /\ inflight = <<>> /\ bubbles = <<>>

\* C26: in every state in which the widget is finished the input box and
\* the Send button are disabled.
C26_FinishedKeepsInputDisabled ==
    finished => (inputDisabled /\ sendDisabled)

\* number of elements of a sequence that satisfy a test
Count(seq, Test(_)) == Len(SelectSeq(seq, Test))

IsUserLine(line) == StartsWith(line, UserPrefix)
IsUserMessage(m) == m.role = "user"
IsMarkerLine(line) == line = ConcludedMarker

\* C27: once the widget is finished it stays finished, and no event appends
\* a User line to the transcript, appends a user message to the
\* conversation history, or issues a call from Send or Enter.
C27_NoUserInputAfterFinished ==
    [][finished =>
          /\ finished'
          /\ Count(transcriptLines', IsUserLine)
                 = Count(transcriptLines, IsUserLine)
          /\ Count(conversationHistory', IsUserMessage)
                 = Count(conversationHistory, IsUserMessage)
          /\ lastEvent' \in {"send", "enter"} => callsMade' = callsMade]_vars

C27_Witness ==
    /\ finished /\ ~restored /\ lastEvent = "retry"
    /\ callsMade >= 2 /\ UserMessageSent

\* C28: the transcript holds the concluded marker at most once.
C28_MarkerAtMostOnce == Count(transcriptLines, IsMarkerLine) <= 1

C28_Witness ==
    /\ Count(transcriptLines, IsMarkerLine) = 1
    /\ finishedBy = "finish" /\ lastEvent = "reply"
    /\ tokensUsed >= maxTokens

IsSpokenLine(line) == line # <<>> /\ line # ConcludedMarker
IsSpokenMessage(m) == m.role # "system"
LineOf(m) ==
    IF m.role = "assistant" THEN InterviewerPrefix \o m.content
    ELSE UserPrefix \o m.content

\* C29: in a widget that was not restored, the transcript lines other than
\* the blank line and the concluded marker are, in order, the lines of the
\* non-system messages of the conversation history, and a failed call
\* changes neither sequence.
C29_TranscriptMatchesHistory ==
    /\ [](~restored =>
            LET lines == SelectSeq(transcriptLines, IsSpokenLine)
                msgs == SelectSeq(conversationHistory, IsSpokenMessage)
            IN /\ Len(lines) = Len(msgs)
               /\ \A i \in DOMAIN lines : lines[i] = LineOf(msgs[i]))
    /\ [][lastEvent' = "error" =>
              /\ transcriptLines' = transcriptLines
              /\ conversationHistory' = conversationHistory]_vars

C29_Witness ==
    /\ ~restored /\ lastEvent = "error"
    /\ Count(transcriptLines, IsUserLine) >= 1
    /\ Count(transcriptLines, IsMarkerLine) = 1
    /\ \E i \in DOMAIN conversationHistory : conversationHistory[i].role = "assistant"
    /\ \E i \in DOMAIN conversationHistory : conversationHistory[i].role = "system"


(***************************************************************************)
(* Properties of the round trip (RoundTripSpec)                            *)
(***************************************************************************)

Roles(bs) == [i \in DOMAIN bs |-> bs[i].role]

\* C9: restoring the transcript of a conversation of N messages displays
\* exactly N bubbles, in the original order and with the original roles.
C9_RoundTripBubbles ==
    rtPhase = "back" => Roles(rtRestored.bubbles) = Roles(rtSession.bubbles)

(***************************************************************************)
(* Properties of the theme registration (LifecycleSpec)                    *)
(***************************************************************************)
IsAIInterviewRow(row) == row.name = "AIInterview"
Registered == Count(themes, IsAIInterviewRow)

\* C30: the question-theme table never holds more than one record named
\* AIInterview; it holds exactly one after an activation or an
\* administrator's reinstall whose save succeeded, and none after a
\* deactivation whose uninstall succeeded.
C30_AtMostOneThemeRecord ==
    /\ Registered <= 1
    /\ (lifecycle.op \in {"activate", "reinstall"} /\ lifecycle.ok)
          => Registered = 1
    /\ (lifecycle.op = "deactivate" /\ lifecycle.ok) => Registered = 0

\* a second installation in a row, by reinstall, has run
C30_Witness ==
    /\ lifecycle.op = "reinstall" /\ lifecycle.ok
    /\ lifecycle.installs = 2
    /\ Registered = 1
    /\ auxResp # NoResponse /\ auxResp.status = 200

====
